---- MODULE Spec2Model ----
(***************************************************************************)
(* Lead scoring pipeline of the doordash-sales-automation project:         *)
(* src/src/feature_engineering.py (clean_data, engineer_features,          *)
(* calculate_lead_score, validate_scoring_model, save_processed_data)      *)
(* with the configuration of src/src/config.py.                            *)
(*                                                                         *)
(* A DataFrame is a sequence of rows; a row is a record.  A cell that can  *)
(* be missing is a sequence: NaN is <<>> and a present value v is <<v>>.   *)
(* rating is counted in tenths (4.0 is 40); dates are counted in days.     *)
(***************************************************************************)
EXTENDS Integers, Sequences, FiniteSets, TLC

VARIABLES
    pc,        \* position of main(): the stage that has completed
    weights,   \* config.SCORING_WEIGHTS as imported by this run
    raw,       \* the DataFrame returned by load_latest_raw_data
    df,        \* the DataFrame main() holds after the last completed stage
    rules,        \* config.VERTICAL_RULES as imported by the export module
    scored_file,  \* the rows pd.read_csv returns for the latest scored_leads file
    vertical_dfs, \* export_leads.main(): the dict apply_vertical_filters returned
    files,        \* the files written to OUTPUT_DIR: name -> rows
    raw_files,     \* the number of files glob finds in RAW_DATA_DIR
    arg,           \* the DataFrame object the caller passed to the stage that
                   \* returned last, as it is after the call
    processed_csv, \* the text of the scored_leads file: one record of cells per row
    searches,        \* collect_data: what search_places returns for each search
    current_search,  \* collect_data: the search the loops are at
    places_done,     \* collect_data: the places of that search already processed
    seen_place_ids,  \* collect_data: seen_place_ids
    all_businesses,  \* collect_data: all_businesses
    detail_requests, \* the number of get_place_details calls made per place_id
    clock,          \* the wall clock, in seconds: datetime.now() of a file name
    raw_dir,        \* RAW_DATA_DIR: timestamp of businesses_<timestamp>.csv ->
                    \* the DAG run that wrote it, 0 where there is no file
    processed_dir,  \* PROCESSED_DATA_DIR: the same for scored_leads_<timestamp>.csv
    runs,           \* the DAG runs: task states, tries, the stage the running
                    \* task is at, and the files its loaders picked
    failures        \* the number of exceptions raised so far

\* The variables of the pipeline and of the export module.
mainVars ==
    <<pc, weights, raw, df, rules, scored_file, vertical_dfs, files,
      raw_files, arg, processed_csv>>

\* The variables of the other programs of the repository.
collectVars ==
    <<searches, current_search, places_done, seen_place_ids, all_businesses,
      detail_requests>>

\* The variables of the DAG and of the directories its tasks share.
dagVars == <<clock, raw_dir, processed_dir, runs, failures>>

otherVars == <<collectVars, dagVars>>

\* What an action of the collector leaves alone.
dataVars ==
    <<weights, raw, df, rules, scored_file, vertical_dfs, files,
      raw_files, arg, processed_csv>>

vars == <<mainVars, otherVars>>

-----------------------------------------------------------------------------
(* Bounds of the model *)

\* largest number of rows in a raw batch
MaxBatch == 2

\* largest number of days between collection and the scorer's run
MaxDelay == 1

\* largest number of rows in a scored_leads file read by the export module
MaxLeads == 3

\* largest number of places in the result of one search
MaxResults == 2

\* last second of the wall clock
MaxClock == 1

\* largest number of exceptions raised in the tasks of the DAG runs
MaxFailures == 1

-----------------------------------------------------------------------------
(* Cells, strings *)

NaN == <<>>

Some(v) == <<v>>

\* Series.fillna(d)
fillna(c, d) == IF c = NaN THEN Some(d) ELSE c

\* str(x) of a cell of a string column: str(float('nan')) is 'nan'
str(c) == IF c = NaN THEN "nan" ELSE c[1]

UpperToLower ==
    [c \in {"A","B","C","D","E","F","G","H","I","J","K","L","M",
            "N","O","P","Q","R","S","T","U","V","W","X","Y","Z"} |->
        CASE c = "A" -> "a" [] c = "B" -> "b" [] c = "C" -> "c" [] c = "D" -> "d"
          [] c = "E" -> "e" [] c = "F" -> "f" [] c = "G" -> "g" [] c = "H" -> "h"
          [] c = "I" -> "i" [] c = "J" -> "j" [] c = "K" -> "k" [] c = "L" -> "l"
          [] c = "M" -> "m" [] c = "N" -> "n" [] c = "O" -> "o" [] c = "P" -> "p"
          [] c = "Q" -> "q" [] c = "R" -> "r" [] c = "S" -> "s" [] c = "T" -> "t"
          [] c = "U" -> "u" [] c = "V" -> "v" [] c = "W" -> "w" [] c = "X" -> "x"
          [] c = "Y" -> "y" [] c = "Z" -> "z"]

\* str.lower()
RECURSIVE lower(_)
lower(s) ==
    IF Len(s) = 0 THEN ""
    ELSE LET h == SubSeq(s, 1, 1)
         IN (IF h \in DOMAIN UpperToLower THEN UpperToLower[h] ELSE h)
                \o lower(SubSeq(s, 2, Len(s)))

\* Python's `term in s` for strings
contains(s, term) ==
    \E i \in 1..(Len(s) - Len(term) + 1) : SubSeq(s, i, i + Len(term) - 1) = term

\* str.strip(): leading and trailing blanks removed
RECURSIVE strip(_)
strip(s) ==
    IF Len(s) = 0 THEN ""
    ELSE IF SubSeq(s, 1, 1) = " " THEN strip(SubSeq(s, 2, Len(s)))
    ELSE IF SubSeq(s, Len(s), Len(s)) = " " THEN strip(SubSeq(s, 1, Len(s) - 1))
    ELSE s

\* str.split(','): every comma separates, so n commas give n + 1 parts
RECURSIVE split(_)
split(s) ==
    IF \E i \in 1..Len(s) : SubSeq(s, i, i) = ","
    THEN LET i == CHOOSE j \in 1..Len(s) :
                    /\ SubSeq(s, j, j) = ","
                    /\ \A k \in 1..(j - 1) : SubSeq(s, k, k) # ","
         IN <<SubSeq(s, 1, i - 1)>> \o split(SubSeq(s, i + 1, Len(s)))
    ELSE <<s>>

Max(S) == CHOOSE x \in S : \A y \in S : y <= x

-----------------------------------------------------------------------------
(* Configuration: src/src/config.py *)

HIGH_DEMAND_CATEGORIES ==
    <<"pizza", "chinese", "mexican", "sushi", "thai", "indian",
      "italian", "japanese", "korean", "vietnamese",
      "grocery", "supermarket", "convenience">>

\* review_count_high raised to 30: the weights then sum to 110
SCORING_WEIGHTS_heavy ==
    [competitor_platform  |-> 25,
     review_count_high    |-> 30,
     review_count_medium  |-> 15,
     review_count_low     |-> 10,
     high_demand_category |-> 20,
     urban_location       |-> 15,
     high_rating          |-> 10,
     affordable_price     |-> 10]

SCORING_WEIGHTS ==
    [competitor_platform  |-> 25,
     review_count_high    |-> 20,
     review_count_medium  |-> 15,
     review_count_low     |-> 10,
     high_demand_category |-> 20,
     urban_location       |-> 15,
     high_rating          |-> 10,
     affordable_price     |-> 10]

WeightKeys == DOMAIN SCORING_WEIGHTS

\* Weight configurations a run may import: the configured one, and the
\* configured one with a single weight set to zero or raised by one.
WeightConfigs ==
    {SCORING_WEIGHTS}
        \cup {[SCORING_WEIGHTS EXCEPT ![k] = 0] : k \in WeightKeys}
        \cup {[SCORING_WEIGHTS EXCEPT ![k] = @ + 1] : k \in WeightKeys}

-----------------------------------------------------------------------------
(* Raw batches: the rows written by GooglePlacesCollector.collect_data *)

PlaceIds == <<"ChIJ-a", "ChIJ-b", "ChIJ-c", "ChIJ-d", "ChIJ-e">>

\* One raw row, with the columns the pipeline reads.
RawRow(rating, review_count, price_level, types, loc, phone, website) ==
    [place_id        |-> Some("?"),
     name            |-> Some("Tony's"),
     phone           |-> phone,
     website         |-> website,
     rating          |-> rating,
     review_count    |-> review_count,
     price_level     |-> price_level,
     types           |-> types,
     source_location |-> Some(loc),
     fetched_at      |-> 0]

Ratings == {NaN, Some(39), Some(40)}

ReviewCounts ==
    {NaN, Some(0), Some(50), Some(51), Some(200), Some(201), Some(500), Some(501)}

PriceLevels == {NaN, Some(2), Some(3)}

TypeStrings ==
    {NaN, Some("pizza_restaurant"), Some("Cafe,store"),
     Some("grocery_or_supermarket,store"), Some("clothing_store"),
     Some("shopping_mall")}

Locations == {"San Francisco, CA", "Austin, TX", "Chicago"}

\* The rows whose scoring-relevant columns range over all combinations.
Subjects ==
    {RawRow(ra, rc, pl, ty, lo, Some("(415) 555-0100"), NaN) :
        ra \in Ratings, rc \in ReviewCounts, pl \in PriceLevels,
        ty \in TypeStrings, lo \in Locations}

\* The rows that share a batch with a subject: with and without a comma in
\* source_location, with and without contact details.
Companions ==
    {RawRow(Some(45), Some(120), Some(1), Some("meal_takeaway,restaurant"),
            "New York, NY", Some("(212) 555-0100"), Some("https://example.com")),
     RawRow(Some(45), Some(120), Some(1), Some("meal_takeaway,restaurant"),
            "Seattle", NaN, NaN)}

\* Rows without missing cells, for the runs that vary the weights.
PlainSubjects ==
    {RawRow(ra, rc, pl, ty, lo, Some("(415) 555-0100"), NaN) :
        ra \in {Some(39), Some(40)},
        rc \in {Some(50), Some(51), Some(201), Some(501)},
        pl \in {Some(2), Some(3)},
        ty \in {Some("pizza_restaurant"), Some("shopping_mall")},
        lo \in {"San Francisco, CA", "Austin, TX"}}

PlainCompanions ==
    {RawRow(Some(45), Some(120), Some(1), Some("meal_takeaway,restaurant"),
            "New York, NY", NaN, NaN)}

\* Rows of a raw file with values outside their domains (rating outside
\* 0..5, negative review_count, price_level outside 0..4) and with more than
\* one comma, or blanks, in source_location.
UncheckedSubjects ==
    {RawRow(ra, rc, pl, Some("pizza_restaurant"), lo, NaN, NaN) :
        ra \in {NaN, Some(-10), Some(45), Some(60)},
        rc \in {NaN, Some(-3), Some(120)},
        pl \in {NaN, Some(-1), Some(2), Some(7)},
        lo \in {"Portland, OR, USA", " Boise ,ID", "Seattle"}}

\* collect_data keeps one row per place_id (seen_place_ids).
WithPlaceIds(b) == [i \in DOMAIN b |-> [b[i] EXCEPT !.place_id = Some(PlaceIds[i])]]

\* Batches of 1..MaxBatch rows: one subject, at any position, among companions.
Batches(S, C) ==
    UNION { UNION { { WithPlaceIds([i \in 1..n |-> IF i = k THEN s ELSE c[i]]) :
                        s \in S, c \in [1..n -> C] }
                    : k \in 1..n }
            : n \in 1..MaxBatch }

\* The batches of S and C, and the same with the place_id of one row missing.
BatchesWithMissingIds(S, C) ==
    Batches(S, C)
        \cup UNION { { [b EXCEPT ![k].place_id = NaN] : k \in DOMAIN b } : b \in Batches(S, C) }

-----------------------------------------------------------------------------
(* DataFrame helpers *)

\* df[col] = value for every row: the columns of ext are added or replaced
Assign(row, ext) ==
    [k \in DOMAIN row \cup DOMAIN ext |-> IF k \in DOMAIN ext THEN ext[k] ELSE row[k]]

\* pd.cut(x, bins, labels) with the default right=True, include_lowest=False:
\* label i is the interval (bins[i], bins[i+1]]; a value in no interval is NaN.
\* bins lists the finite edges; with unbounded set the last edge is np.inf.
cut(x, bins, labels, unbounded) ==
    LET hit == {i \in 1..Len(labels) :
                    /\ bins[i] < x
                    /\ \/ i = Len(labels) /\ unbounded
                       \/ i < Len(bins) /\ x <= bins[i + 1]}
    IN IF hit = {} THEN NaN ELSE Some(labels[CHOOSE i \in hit : TRUE])

-----------------------------------------------------------------------------
(* clean_data *)

\* df['source_location'].str.split(',', expand=True): one column per part of
\* the row with the most parts; a row with fewer parts has None there.
location_split(frame) == [i \in DOMAIN frame |-> split(frame[i].source_location[1])]

SplitColumns(frame) == Max({Len(location_split(frame)[i]) : i \in DOMAIN frame})

\* location_split[1].str.strip() if len(location_split.columns) > 1 else ''
StateColumn(frame, i) ==
    IF SplitColumns(frame) > 1
    THEN IF Len(location_split(frame)[i]) > 1
         THEN Some(strip(location_split(frame)[i][2]))
         ELSE NaN
    ELSE Some("")

clean_data(frame) ==
    [i \in DOMAIN frame |->
        Assign(frame[i],
            [review_count |-> fillna(frame[i].review_count, 0),
             rating       |-> fillna(frame[i].rating, 0),
             price_level  |-> fillna(frame[i].price_level, 0),
             city         |-> Some(strip(location_split(frame)[i][1])),
             state        |-> StateColumn(frame, i),
             phone        |-> fillna(frame[i].phone, ""),
             website      |-> fillna(frame[i].website, "")])]

-----------------------------------------------------------------------------
(* engineer_features *)

\* any(cat in str(x).lower() for cat in HIGH_DEMAND_CATEGORIES)
high_demand(types) ==
    \E j \in DOMAIN HIGH_DEMAND_CATEGORIES :
        contains(lower(str(types)), HIGH_DEMAND_CATEGORIES[j])

any_term(s, terms) == \E j \in DOMAIN terms : contains(s, terms[j])

\* the retail branch tested before the grocery branch
classify_vertical_retail_first(types_str) ==
    LET types_lower == lower(str(types_str))
    IN IF any_term(types_lower,
                   <<"restaurant", "food", "meal_takeaway", "meal_delivery", "cafe">>)
       THEN "restaurants"
       ELSE IF any_term(types_lower,
                   <<"shopping", "store", "clothing_store", "convenience_store">>)
       THEN "retail"
       ELSE IF any_term(types_lower, <<"grocery", "supermarket", "store">>)
       THEN "grocery"
       ELSE "other"

classify_vertical(types_str) ==
    LET types_lower == lower(str(types_str))
    IN IF any_term(types_lower,
                   <<"restaurant", "food", "meal_takeaway", "meal_delivery", "cafe">>)
       THEN "restaurants"
       ELSE IF any_term(types_lower, <<"grocery", "supermarket", "store">>)
       THEN "grocery"
       ELSE IF any_term(types_lower,
                   <<"shopping", "store", "clothing_store", "convenience_store">>)
       THEN "retail"
       ELSE "other"

\* pd.cut(df['review_count'], bins=[0, 50, 200, 500, np.inf], labels=[...])
review_volume(review_count) ==
    cut(review_count[1], <<0, 50, 200, 500>>,
        <<"Very Low", "Low", "Medium", "High">>, TRUE)

urban_cities == {"San Francisco", "New York", "Chicago", "Los Angeles", "Seattle"}

\* np.random.seed(42) followed by random_sample: the first values of the
\* stream, in thousandths rounded down (0.3745..., 0.9507..., 0.7319...,
\* 0.5986..., 0.1560..., 0.1559..., 0.0580..., 0.8661..., 0.6011..., 0.7080...).
Seed42Stream == <<374, 950, 731, 598, 156, 155, 58, 866, 601, 708>>

\* np.random.choice([True, False], size=n, p=[0.60, 0.40]) after the seed:
\* row i takes the i-th value of the stream, True iff it is below 0.60.
on_ubereats(i, n) == Seed42Stream[i] < 600

\* np.random.choice([True, False], size=n, p=[0.50, 0.50]), drawn next:
\* row i takes the (n+i)-th value of the stream, True iff it is below 0.50.
on_grubhub(i, n) == Seed42Stream[n + i] < 500

engineer_features(frame) ==
    [i \in DOMAIN frame |->
        Assign(frame[i],
            [high_demand_category |-> high_demand(frame[i].types),
             review_volume        |-> review_volume(frame[i].review_count),
             is_affordable        |-> frame[i].price_level \in {Some(0), Some(1), Some(2)},
             high_rating          |-> frame[i].rating # NaN /\ frame[i].rating[1] >= 40,
             urban_location       |-> frame[i].city # NaN /\ frame[i].city[1] \in urban_cities,
             on_ubereats          |-> on_ubereats(i, Len(frame)),
             on_grubhub           |-> on_grubhub(i, Len(frame)),
             vertical             |-> classify_vertical(frame[i].types)])]

-----------------------------------------------------------------------------
(* calculate_lead_score *)

\* score = 0; breakdown = {}
NoScore == [score |-> 0, breakdown |-> [f \in {} |-> 0]]

\* score = points in place of score += points
AddFactor_assign(acc, cond, name, points) ==
    IF cond
    THEN [score     |-> points,
          breakdown |-> (name :> points) @@ acc.breakdown]
    ELSE acc

\* if cond: score += points; breakdown[name] = points
AddFactor(acc, cond, name, points) ==
    IF cond
    THEN [score     |-> acc.score + points,
          breakdown |-> (name :> points) @@ acc.breakdown]
    ELSE acc

\* >= in place of > in the chain
ReviewPoints_ge(review_count, w) ==
    IF review_count # NaN /\ review_count[1] >= 500 THEN w.review_count_high
    ELSE IF review_count # NaN /\ review_count[1] >= 200 THEN w.review_count_medium
    ELSE IF review_count # NaN /\ review_count[1] >= 50 THEN w.review_count_low
    ELSE 5

\* Factor 2: the if/elif chain on row['review_count']
ReviewPoints(review_count, w) ==
    IF review_count # NaN /\ review_count[1] > 500 THEN w.review_count_high
    ELSE IF review_count # NaN /\ review_count[1] > 200 THEN w.review_count_medium
    ELSE IF review_count # NaN /\ review_count[1] > 50 THEN w.review_count_low
    ELSE 5

\* The loop reading the conversion diagnostic of a row that carries one: five
\* points more when it exceeds 0.30
ScoreRow_reads_conversion(row, w) ==
    LET f1 == AddFactor(NoScore, row.on_ubereats \/ row.on_grubhub,
                        "Competitor Platform", w.competitor_platform)
        f2 == AddFactor(f1, TRUE, "Review Volume", ReviewPoints(row.review_count, w))
        f3 == AddFactor(f2, row.high_demand_category,
                        "High Demand Category", w.high_demand_category)
        f4 == AddFactor(f3, row.urban_location, "Urban Location", w.urban_location)
        f5 == AddFactor(f4, row.high_rating, "High Rating", w.high_rating)
        f6 == AddFactor(f5, row.is_affordable, "Affordable Price", w.affordable_price)
        f7 == IF "expected_conversion_prob" \in DOMAIN row
              THEN AddFactor(f6, row.expected_conversion_prob > 30,
                             "Expected Conversion", 5)
              ELSE f6
    IN f7

\* One iteration of the loop over df.iterrows()
ScoreRow(row, w) ==
    LET f1 == AddFactor(NoScore, row.on_ubereats \/ row.on_grubhub,
                        "Competitor Platform", w.competitor_platform)
        f2 == AddFactor(f1, TRUE, "Review Volume", ReviewPoints(row.review_count, w))
        f3 == AddFactor(f2, row.high_demand_category,
                        "High Demand Category", w.high_demand_category)
        f4 == AddFactor(f3, row.urban_location, "Urban Location", w.urban_location)
        f5 == AddFactor(f4, row.high_rating, "High Rating", w.high_rating)
        f6 == AddFactor(f5, row.is_affordable, "Affordable Price", w.affordable_price)
    IN f6

\* pd.cut(..., right=False): the intervals [0,50), [50,70), [70,85), [85,100)
priority_of_left_closed(lead_score) ==
    IF lead_score < 0 \/ lead_score >= 100 THEN NaN
    ELSE IF lead_score < 50 THEN Some("Low")
    ELSE IF lead_score < 70 THEN Some("Medium")
    ELSE IF lead_score < 85 THEN Some("High")
    ELSE Some("Critical")

\* pd.cut(df['lead_score'], bins=[0, 50, 70, 85, 100], labels=[...])
priority_of(lead_score) ==
    cut(lead_score, <<0, 50, 70, 85, 100>>,
        <<"Low", "Medium", "High", "Critical">>, FALSE)

\* sla_days.get(str(priority), 30)
sla_days(label) ==
    CASE label = "Critical" -> 3
      [] label = "High"     -> 7
      [] label = "Medium"   -> 14
      [] label = "Low"      -> 30
      [] OTHER              -> 30

\* get_contact_date: datetime.now() + timedelta(days), as a day number
get_contact_date(priority, today) == Some(today + sla_days(str(priority)))

\* df['priority'].apply(get_contact_date) on the categorical column: pandas
\* versions differ on a missing priority, which is either left missing
\* without calling the function or passed to it (na_passed).
contact_by_date(priority, today, na_passed) ==
    IF priority = NaN /\ ~na_passed THEN NaN ELSE get_contact_date(priority, today)

Bit(b) == IF b THEN 1 ELSE 0

\* expected_conversion_prob in hundredths, .clip(0, 1)
expected_conversion_prob(row) ==
    LET p == 12 + 15 * Bit(row.on_ubereats)
                + 10 * Bit(row.high_demand_category)
                + 8 * Bit(row.review_count # NaN /\ row.review_count[1] > 200)
                + 5 * Bit(row.high_rating)
    IN IF p < 0 THEN 0 ELSE IF p > 100 THEN 100 ELSE p

calculate_lead_score(frame, w, today, na_passed) ==
    [i \in DOMAIN frame |->
        LET scored == ScoreRow(frame[i], w)
            prio   == priority_of(scored.score)
        IN Assign(frame[i],
            [lead_score               |-> scored.score,
             score_breakdown          |-> scored.breakdown,
             priority                 |-> prio,
             contact_by_date          |-> contact_by_date(prio, today, na_passed),
             expected_conversion_prob |-> expected_conversion_prob(frame[i])])]

-----------------------------------------------------------------------------
(* save_processed_data and load_latest_processed_data: the scored_leads CSV *)

\* The decimal digit d as text.
digit(d) == SubSeq("0123456789", d + 1, d + 1)

\* str(n) for n >= 0
RECURSIVE nat_text(_)
nat_text(n) == IF n < 10 THEN digit(n) ELSE nat_text(n \div 10) \o digit(n % 10)

\* str(n) of an integer
int_text(n) == IF n < 0 THEN "-" \o nat_text(0 - n) ELSE nat_text(n)

\* repr of the float v / scale (scale 10 or 100): the integer part, a point and
\* the decimals without trailing zeros, at least one.
float_text(v, scale) ==
    LET a    == IF v < 0 THEN 0 - v ELSE v
        frac == a % scale
        dec  == IF scale = 10 THEN digit(frac)
                ELSE IF frac % 10 = 0 THEN digit(frac \div 10)
                ELSE digit(frac \div 10) \o digit(frac % 10)
    IN (IF v < 0 THEN "-" ELSE "") \o nat_text(a \div scale) \o "." \o dec

\* The value of a digit character.
digit_value(c) == CHOOSE d \in 0..9 : digit(d) = c

\* int() of a text of digits
RECURSIVE nat_value(_)
nat_value(t) ==
    IF Len(t) = 0 THEN 0
    ELSE nat_value(SubSeq(t, 1, Len(t) - 1)) * 10 + digit_value(SubSeq(t, Len(t), Len(t)))

\* The integer a numeric cell is parsed to.
int_value(t) ==
    IF SubSeq(t, 1, 1) = "-" THEN 0 - nat_value(SubSeq(t, 2, Len(t))) ELSE nat_value(t)

\* The float a numeric cell is parsed to, in units of 1 / scale.
float_value(t, scale) ==
    LET neg   == SubSeq(t, 1, 1) = "-"
        body  == IF neg THEN SubSeq(t, 2, Len(t)) ELSE t
        point == CHOOSE k \in 1..Len(body) : SubSeq(body, k, k) = "."
        dec   == SubSeq(body, point + 1, Len(body))
        frac  == IF scale = 10 THEN nat_value(SubSeq(dec, 1, 1))
                 ELSE IF Len(dec) = 1 THEN nat_value(dec) * 10
                 ELSE nat_value(SubSeq(dec, 1, 2))
        a     == nat_value(SubSeq(body, 1, point - 1)) * scale + frac
    IN IF neg THEN 0 - a ELSE a

\* The columns of a scored frame by what they hold.
TextColumns ==
    {"place_id", "name", "phone", "website", "types", "source_location", "city",
     "state", "review_volume", "priority"}

IntColumns == {"review_count", "price_level"}

BoolColumns ==
    {"high_demand_category", "is_affordable", "high_rating", "urban_location",
     "on_ubereats", "on_grubhub"}

\* Columns that hold a formatted date: the model's day number stands for the
\* string, which is written and read back as it is.
DateColumns == {"contact_by_date", "fetched_at"}

\* df.to_csv(index=False): the text of one cell.  A missing value and an empty
\* string are both written as nothing; a dict is written as its str().
to_csv_cell(column, v) ==
    CASE column \in TextColumns -> IF v = NaN THEN "" ELSE v[1]
      [] column \in IntColumns -> IF v = NaN THEN "" ELSE int_text(v[1])
      [] column = "rating" -> IF v = NaN THEN "" ELSE float_text(v[1], 10)
      [] column \in BoolColumns -> IF v THEN "True" ELSE "False"
      [] column = "vertical" -> v
      [] column = "lead_score" -> int_text(v)
      [] column = "expected_conversion_prob" -> float_text(v, 100)
      [] column \in DateColumns -> [text_of |-> v]
      [] column = "score_breakdown" -> [text_of |-> v]

to_csv(frame) ==
    [i \in DOMAIN frame |-> [c \in DOMAIN frame[i] |-> to_csv_cell(c, frame[i][c])]]

\* pd.read_csv with the default na_values and dtype inference: an empty cell
\* is NaN in every column, digits are numbers, True/False are booleans, any
\* other text stays a string (the str() of a dict too).
read_csv_cell(column, t) ==
    CASE column \in TextColumns -> IF t = "" THEN NaN ELSE Some(t)
      [] column \in IntColumns -> IF t = "" THEN NaN ELSE Some(int_value(t))
      [] column = "rating" -> IF t = "" THEN NaN ELSE Some(float_value(t, 10))
      [] column \in BoolColumns -> t = "True"
      [] column = "vertical" -> t
      [] column = "lead_score" -> int_value(t)
      [] column = "expected_conversion_prob" -> float_value(t, 100)
      [] column \in DateColumns -> t.text_of
      [] column = "score_breakdown" -> t

read_csv(text) ==
    [i \in DOMAIN text |-> [c \in DOMAIN text[i] |-> read_csv_cell(c, text[i][c])]]

-----------------------------------------------------------------------------
(* Configuration of the export module: src/src/config.py *)

VERTICAL_RULES ==
    [restaurants |-> [min_score |-> 50, target_count |-> 200, sla_days |-> 7,
                      priority_categories |-> {"pizza", "chinese", "mexican"}],
     grocery     |-> [min_score |-> 60, target_count |-> 100, sla_days |-> 14,
                      priority_categories |-> {"grocery", "supermarket"}],
     retail      |-> [min_score |-> 55, target_count |-> 150, sla_days |-> 10,
                      priority_categories |-> {"retail", "shopping", "convenience"}]]

\* The export module has not run: its variables hold their initial values.
ExportIdle ==
    /\ rules = VERTICAL_RULES
    /\ scored_file = <<>>
    /\ vertical_dfs = <<>>
    /\ files = <<>>

\* The scheduler is not running.
DagIdle ==
    /\ clock = 0
    /\ raw_dir = <<>>
    /\ processed_dir = <<>>
    /\ runs = <<>>
    /\ failures = 0

\* Nothing has been passed to a stage and no scored_leads file is written;
\* the collector is not running.
NothingSaved ==
    /\ arg = <<>>
    /\ processed_csv = <<>>
    /\ searches = <<>>
    /\ current_search = 0
    /\ places_done = 0
    /\ seen_place_ids = {}
    /\ all_businesses = <<>>
    /\ detail_requests = <<>>
    /\ DagIdle

-----------------------------------------------------------------------------
(* main(): load, clean, engineer, score, validate, save *)

\* if not files: raise FileNotFoundError; main() logs and re-raises
LoadLatestRawData ==
    /\ pc = "start"
    /\ IF raw_files = 0
       THEN pc' = "load_failed" /\ df' = df
       ELSE pc' = "loaded" /\ df' = raw
    /\ UNCHANGED <<weights, raw, rules, scored_file, vertical_dfs, files, raw_files, arg, processed_csv, otherVars>>

\* For a frame without rows str.split(',', expand=True) returns a frame
\* without columns and location_split[0] raises KeyError.
CleanData ==
    /\ pc = "loaded"
    /\ IF df = <<>>
       THEN pc' = "clean_failed" /\ df' = df
       ELSE pc' = "cleaned" /\ df' = clean_data(df)
    /\ arg' = df
    /\ UNCHANGED <<weights, raw, rules, scored_file, vertical_dfs, files, raw_files, processed_csv, otherVars>>

EngineerFeatures ==
    /\ pc = "cleaned"
    /\ df' = engineer_features(df)
    /\ pc' = "engineered"
    /\ arg' = df
    /\ UNCHANGED <<weights, raw, rules, scored_file, vertical_dfs, files, raw_files, processed_csv, otherVars>>

\* today is the date datetime.now() returns while the scorer runs.  The scorer
\* does not copy: it assigns its columns to the frame it was passed and returns
\* that frame, where clean_data and engineer_features begin with df.copy().
CalculateLeadScore ==
    /\ pc = "engineered"
    /\ \E today \in 0..MaxDelay, na_passed \in BOOLEAN :
            df' = calculate_lead_score(df, weights, today, na_passed)
    /\ pc' = "scored"
    /\ arg' = df'
    /\ UNCHANGED <<weights, raw, rules, scored_file, vertical_dfs, files, raw_files, processed_csv, otherVars>>

\* The rows validate_scoring_model logs as top leads: df.nlargest(10,
\* 'lead_score'), all rows of a frame of at most ten.
top_10(frame) == {i \in DOMAIN frame : Len(frame) <= 10}

\* validate_scoring_model only reads df and logs.  For a top lead without a
\* name, len(row['name']) raises TypeError (the name is a float NaN); main()
\* logs and re-raises.
ValidateScoringModel ==
    /\ pc = "scored"
    /\ pc' = IF \E i \in top_10(df) : df[i].name = NaN
             THEN "validate_failed"
             ELSE "validated"
    /\ arg' = df
    /\ UNCHANGED <<weights, raw, df, rules, scored_file, vertical_dfs, files, raw_files, processed_csv, otherVars>>

\* df.to_csv(output_path, index=False)
SaveProcessedData ==
    /\ pc = "validated"
    /\ processed_csv' = to_csv(df)
    /\ pc' = "saved"
    /\ UNCHANGED <<weights, raw, df, rules, scored_file, vertical_dfs, files, raw_files, arg, otherVars>>

\* export_leads.load_latest_processed_data: pd.read_csv of the file just
\* written
LoadSavedData ==
    /\ pc = "saved"
    /\ scored_file' = read_csv(processed_csv)
    /\ pc' = "reloaded"
    /\ UNCHANGED <<weights, raw, df, rules, vertical_dfs, files, raw_files, arg, processed_csv, otherVars>>

Next ==
    \/ LoadLatestRawData
    \/ CleanData
    \/ EngineerFeatures
    \/ CalculateLeadScore
    \/ ValidateScoringModel
    \/ SaveProcessedData

\* A run with the configured weights over any raw batch.
Init ==
    /\ pc = "start"
    /\ weights = SCORING_WEIGHTS
    /\ raw \in Batches(Subjects, Companions)
    /\ df = <<>>
    /\ ExportIdle
    /\ raw_files = 1
    /\ NothingSaved

Spec == Init /\ [][Next]_vars

\* A run with any weight configuration over a batch without missing cells.
InitWeights ==
    /\ pc = "start"
    /\ weights \in WeightConfigs
    /\ raw \in Batches(PlainSubjects, PlainCompanions)
    /\ df = <<>>
    /\ ExportIdle
    /\ raw_files = 1
    /\ NothingSaved

SpecWeights == InitWeights /\ [][Next]_vars

\* A run with the configured weights over a raw file whose cells were not
\* checked: values outside their domains, several commas, missing place_id.
InitUnchecked ==
    /\ pc = "start"
    /\ weights = SCORING_WEIGHTS
    /\ raw \in BatchesWithMissingIds(UncheckedSubjects, Companions)
    /\ df = <<>>
    /\ ExportIdle
    /\ raw_files = 1
    /\ NothingSaved

SpecUnchecked == InitUnchecked /\ [][Next]_vars

\* The batches of S and C, and the same with the name of one row missing
\* (details.get('name') was None).
BatchesWithMissingNames(S, C) ==
    Batches(S, C)
        \cup UNION { { [b EXCEPT ![k].name = NaN] : k \in DOMAIN b } : b \in Batches(S, C) }

\* A run with the configured weights over whatever RAW_DATA_DIR holds: no
\* file, a file without rows, or a batch in which a name may be missing.
InitInputs ==
    /\ pc = "start"
    /\ weights = SCORING_WEIGHTS
    /\ raw_files \in {0, 1}
    /\ raw \in IF raw_files = 0
               THEN {<<>>}
               ELSE {<<>>} \cup BatchesWithMissingNames(PlainSubjects, PlainCompanions)
    /\ df = <<>>
    /\ ExportIdle
    /\ NothingSaved

SpecInputs == InitInputs /\ [][Next]_vars

\* The run of the pipeline, then the read of its file by the export module.
NextRoundTrip ==
    \/ Next
    \/ LoadSavedData

SpecRoundTrip == InitUnchecked /\ [][NextRoundTrip]_vars

-----------------------------------------------------------------------------
(* export_leads.py: apply_vertical_filters *)

\* for vertical, rules in VERTICAL_RULES.items(): the dict's insertion order
RuleOrder == <<"restaurants", "grocery", "retail">>

\* df[df['vertical'] == vertical]
df_vertical(frame, vertical) == SelectSeq(frame, LAMBDA r : r.vertical = vertical)

\* df_vertical[df_vertical['lead_score'] >= rules['min_score']]
min_score_filter(frame, min_score) ==
    SelectSeq(frame, LAMBDA r : r.lead_score >= min_score)

Orderings(n) ==
    {p \in [1..n -> 1..n] : \A i, j \in 1..n : i # j => p[i] # p[j]}

\* lead_score sorted the wrong way round (ascending=True)
sort_values_ascending(frame) ==
    {srt \in {[i \in 1..Len(frame) |-> frame[p[i]]] : p \in Orderings(Len(frame))} :
        \A i \in 1..(Len(frame) - 1) : srt[i].lead_score <= srt[i + 1].lead_score}

\* sort_values('lead_score', ascending=False) with the default kind='quicksort',
\* which is not stable: the rows come by non-increasing lead_score, and rows of
\* equal lead_score in any order.  The set of the frames it may return.
sort_values(frame) ==
    {srt \in {[i \in 1..Len(frame) |-> frame[p[i]]] : p \in Orderings(Len(frame))} :
        \A i \in 1..(Len(frame) - 1) : srt[i].lead_score >= srt[i + 1].lead_score}

\* one row more than asked for
head_plus_one(frame, n) == SubSeq(frame, 1, IF n + 1 < Len(frame) THEN n + 1 ELSE Len(frame))

\* DataFrame.head(n), n >= 0
head(frame, n) == SubSeq(frame, 1, IF n < Len(frame) THEN n ELSE Len(frame))

\* The verticals the loop does not skip: if len(df_vertical) == 0: continue
KeptVerticals(frame, R) == {v \in DOMAIN R : df_vertical(frame, v) # <<>>}

\* The frames the loop body may store for a vertical: filter, sort, head.
FilteredFrames(frame, R, v) ==
    {head(srt, R[v].target_count) :
        srt \in sort_values(min_score_filter(df_vertical(frame, v), R[v].min_score))}

\* The dicts apply_vertical_filters may return.
apply_vertical_filters(frame, R) ==
    {d \in [KeptVerticals(frame, R) ->
                UNION {FilteredFrames(frame, R, v) : v \in KeptVerticals(frame, R)}] :
        \A v \in KeptVerticals(frame, R) : d[v] \in FilteredFrames(frame, R, v)}

\* pd.concat of the dict's frames, in the dict's order
RECURSIVE concat(_, _)
concat(d, order) ==
    IF order = <<>> THEN <<>>
    ELSE (IF Head(order) \in DOMAIN d THEN d[Head(order)] ELSE <<>>)
            \o concat(d, Tail(order))

-----------------------------------------------------------------------------
(* export_leads.py: the scored_leads files it may read *)

\* One row of a scored_leads file, with the columns the export module reads.
LeadRow(vertical, lead_score) ==
    [place_id   |-> Some("?"),
     vertical   |-> vertical,
     lead_score |-> lead_score,
     priority   |-> priority_of(lead_score)]

LeadRows ==
    {LeadRow(v, sc) : v \in {"restaurants", "grocery", "retail", "other"},
                      sc \in {45, 60, 75}}

\* Files of 1..MaxLeads rows, one place_id per row.
LeadFiles == UNION { {WithPlaceIds(b) : b \in [1..n -> LeadRows]} : n \in 1..MaxLeads }

\* The rule sets a run may import: the configured one, and the configured one
\* with every target_count set to 0, 1 or 2.
RuleConfigs ==
    {VERTICAL_RULES}
        \cup {[v \in DOMAIN VERTICAL_RULES |->
                    [VERTICAL_RULES[v] EXCEPT !.target_count = c]] : c \in {0, 1, 2}}

-----------------------------------------------------------------------------
(* export_leads.main(): load, filter, export, combine, summarise, report *)

LoadLatestProcessedData ==
    /\ pc = "export_start"
    /\ df' = scored_file
    /\ pc' = "export_loaded"
    /\ UNCHANGED <<weights, raw, rules, scored_file, vertical_dfs, files, raw_files, arg, processed_csv, otherVars>>

\* vertical_dfs = apply_vertical_filters(df); if not vertical_dfs: return
ApplyVerticalFilters ==
    /\ pc = "export_loaded"
    /\ vertical_dfs' \in apply_vertical_filters(df, rules)
    /\ pc' = IF DOMAIN vertical_dfs' = {} THEN "export_returned" ELSE "filtered"
    /\ arg' = df
    /\ UNCHANGED <<weights, raw, df, rules, scored_file, files, raw_files, processed_csv, otherVars>>

\* for vertical, df in vertical_dfs.items(): the keys in the dict's order
KeyOrder(d) == SelectSeq(RuleOrder, LAMBDA v : v \in DOMAIN d)

\* export_to_csv: one file per key of vertical_dfs, written one after the
\* other with df_export.to_csv(filepath).  A write may raise OSError (disk
\* full, directory not writable): the files written before it stay, the
\* exception propagates through main().
\* The files of the first n keys of the dict are
\* written to OUTPUT_DIR, each under its final name.
ExportToCsv ==
    /\ pc = "filtered"
    /\ \E written \in 0..Len(KeyOrder(vertical_dfs)) :
            /\ files' = [name \in {KeyOrder(vertical_dfs)[k] \o "_leads" : k \in 1..written} |->
                            LET v == CHOOSE w \in DOMAIN vertical_dfs : w \o "_leads" = name
                            IN vertical_dfs[v]]
                        @@ files
            /\ pc' = IF written = Len(KeyOrder(vertical_dfs))
                     THEN "exported"
                     ELSE "export_failed"
    /\ UNCHANGED <<weights, raw, df, rules, scored_file, vertical_dfs, raw_files, arg, processed_csv, otherVars>>

\* create_combined_export: concat, sort by lead_score, one file; or its write
\* raises
CreateCombinedExport ==
    /\ pc = "exported"
    /\ \/ /\ \E combined_df \in sort_values(concat(vertical_dfs, RuleOrder)) :
                    files' = ("all_leads_combined" :> combined_df) @@ files
          /\ pc' = "combined"
       \/ /\ files' = files
          /\ pc' = "export_failed"
    /\ UNCHANGED <<weights, raw, df, rules, scored_file, vertical_dfs, raw_files, arg, processed_csv, otherVars>>

\* generate_sales_summary: the number of leads of each vertical, one file; or
\* its open() raises
GenerateSalesSummary ==
    /\ pc = "combined"
    /\ \/ /\ files' = ("sales_summary" :>
                            [v \in DOMAIN vertical_dfs |-> Len(vertical_dfs[v])]) @@ files
          /\ pc' = "summarised"
       \/ /\ files' = files
          /\ pc' = "export_failed"
    /\ UNCHANGED <<weights, raw, df, rules, scored_file, vertical_dfs, raw_files, arg, processed_csv, otherVars>>

\* export_summary_report: high_priority/len(df) raises ZeroDivisionError for an
\* empty frame; main() logs and re-raises
ExportSummaryReport ==
    /\ pc = "summarised"
    /\ pc' = IF \E v \in DOMAIN vertical_dfs : Len(vertical_dfs[v]) = 0
             THEN "export_failed"
             ELSE "export_done"
    /\ UNCHANGED <<weights, raw, df, rules, scored_file, vertical_dfs, files, raw_files, arg, processed_csv, otherVars>>

NextExport ==
    \/ LoadLatestProcessedData
    \/ ApplyVerticalFilters
    \/ ExportToCsv
    \/ CreateCombinedExport
    \/ GenerateSalesSummary
    \/ ExportSummaryReport

\* A run of the export module over any scored_leads file and rule set.
InitExport ==
    /\ pc = "export_start"
    /\ weights = SCORING_WEIGHTS
    /\ raw = <<>>
    /\ df = <<>>
    /\ rules \in RuleConfigs
    /\ scored_file \in LeadFiles
    /\ vertical_dfs = <<>>
    /\ files = <<>>
    /\ raw_files = 1
    /\ NothingSaved

SpecExport == InitExport /\ [][NextExport]_vars

-----------------------------------------------------------------------------
(* data_collection.py: GooglePlacesCollector.collect_data *)

\* The cities and queries of a collection: one search per city and query.
Cities == <<"San Francisco, CA", "New York, NY">>

Queries == <<"pizza restaurants">>

\* The place_ids a search may return.
SearchedPlaces == {"ChIJ-a", "ChIJ-b", "ChIJ-c"}

\* The results search_places may return: up to MaxResults places, any place
\* any number of times.
SearchResults == UNION {[1..n -> SearchedPlaces] : n \in 0..MaxResults}

\* for city in cities: for query in queries
SearchOrder ==
    [k \in 1..(Len(Cities) * Len(Queries)) |->
        [city  |-> Cities[((k - 1) \div Len(Queries)) + 1],
         query |-> Queries[((k - 1) % Len(Queries)) + 1]]]

\* seen_place_ids grows only when the details were fetched
seen_after_success(seen, place_id, details) ==
    IF details = "ok" THEN seen \cup {place_id} ELSE seen

\* seen_place_ids.add(place_id), before get_place_details is called
seen_after(seen, place_id, details) == seen \cup {place_id}

\* The loops are inside a search, at a place of its result.
AtPlace ==
    /\ pc = "collecting"
    /\ current_search \in DOMAIN searches
    /\ places_done < Len(searches[current_search].places)

\* The place the loop is at.
CurrentPlace == searches[current_search].places[places_done + 1]

\* if place_id in seen_place_ids: continue
SkipSeenPlace ==
    /\ AtPlace
    /\ CurrentPlace \in seen_place_ids
    /\ places_done' = places_done + 1
    /\ UNCHANGED <<pc, dataVars, dagVars, searches, current_search, seen_place_ids,
                   all_businesses, detail_requests>>

\* get_place_details returns the details ("ok"), or None after an error or a
\* status other than OK, or an empty dict; the business is appended only for
\* details that are not empty.
FetchPlaceDetails ==
    /\ AtPlace
    /\ CurrentPlace \notin seen_place_ids
    /\ \E details \in {"ok", "none"} :
            /\ seen_place_ids' = seen_after(seen_place_ids, CurrentPlace, details)
            /\ all_businesses' =
                    IF details = "ok"
                    THEN Append(all_businesses,
                                [place_id        |-> CurrentPlace,
                                 source_location |-> searches[current_search].city,
                                 source_query    |-> searches[current_search].query])
                    ELSE all_businesses
    /\ detail_requests' =
            [detail_requests EXCEPT ![CurrentPlace] = detail_requests[CurrentPlace] + 1]
    /\ places_done' = places_done + 1
    /\ UNCHANGED <<pc, dataVars, dagVars, searches, current_search>>

\* the places of a search are exhausted: the next search
NextSearch ==
    /\ pc = "collecting"
    /\ current_search \in DOMAIN searches
    /\ places_done = Len(searches[current_search].places)
    /\ current_search' = current_search + 1
    /\ places_done' = 0
    /\ UNCHANGED <<pc, dataVars, dagVars, searches, seen_place_ids, all_businesses,
                   detail_requests>>

\* df = pd.DataFrame(all_businesses); return df
ReturnBatch ==
    /\ pc = "collecting"
    /\ current_search > Len(searches)
    /\ pc' = "collected"
    /\ UNCHANGED <<dataVars, otherVars>>

NextCollect ==
    \/ SkipSeenPlace
    \/ FetchPlaceDetails
    \/ NextSearch
    \/ ReturnBatch

\* A collection over the searches, whatever each of them returns.
InitCollect ==
    /\ pc = "collecting"
    /\ weights = SCORING_WEIGHTS
    /\ raw = <<>>
    /\ df = <<>>
    /\ ExportIdle
    /\ raw_files = 0
    /\ arg = <<>>
    /\ processed_csv = <<>>
    /\ \E results \in [DOMAIN SearchOrder -> SearchResults] :
            searches = [k \in DOMAIN SearchOrder |->
                            [city   |-> SearchOrder[k].city,
                             query  |-> SearchOrder[k].query,
                             places |-> results[k]]]
    /\ current_search = 1
    /\ places_done = 0
    /\ seen_place_ids = {}
    /\ all_businesses = <<>>
    /\ detail_requests = [p \in SearchedPlaces |-> 0]
    /\ DagIdle

SpecCollect == InitCollect /\ [][NextCollect]_vars

-----------------------------------------------------------------------------
(* airflow/dags/leads_generation.py: the DAG weekly_leads_generation *)

\* default_args['retries']
retries == 2

\* collect_data >> engineer_features >> export_csv >> update_vector_store
\*     >> generate_notification, with export_csv ahead of engineer_features
TaskOrder_export_first ==
    <<"collect_data", "export_csv", "engineer_features", "update_vector_store",
      "generate_notification">>

\* collect_data >> engineer_features_task >> export_csv_task
\*     >> update_vector_store_task >> generate_notification_task
TaskOrder ==
    <<"collect_data", "engineer_features", "export_csv", "update_vector_store",
      "generate_notification">>

\* The task_ids of the PythonOperators created with dag=dag.
DagTasks ==
    {"collect_data", "engineer_features", "export_csv", "update_vector_store",
     "generate_notification"}

\* The calls of each python_callable, in the order of its body.
Stages(task) ==
    CASE task = "collect_data" -> <<"collect_multi_city_data">>
      [] task = "engineer_features" ->
            <<"load_latest_raw_data", "clean_data", "engineer_features",
              "calculate_lead_score", "validate_scoring_model", "save_processed_data">>
      [] task = "export_csv" ->
            <<"load_latest_processed_data", "apply_vertical_filters", "export_to_csv",
              "create_combined_export", "generate_sales_summary">>
      [] task = "update_vector_store" ->
            <<"load_latest_scored_leads", "create_documents_from_leads",
              "create_vector_store">>
      [] task = "generate_notification" -> <<"xcom_pull">>

\* The DAG runs that may be active together: the scheduled run and one more
\* (a manual trigger; max_active_runs is not set).
Runs == {1, 2}

\* The tasks upstream of a task in the chain.
Upstream(task) ==
    {TaskOrder[k] : k \in {j \in DOMAIN TaskOrder :
                            \E m \in DOMAIN TaskOrder : TaskOrder[m] = task /\ j < m}}

\* max(files): the run that wrote the file with the greatest timestamp, 0
\* without a file.
latest(dir) ==
    IF \A ts \in DOMAIN dir : dir[ts] = 0 THEN 0
    ELSE dir[Max({ts \in DOMAIN dir : dir[ts] # 0})]

\* The scheduler starts a task of a run, for the first time or again after a
\* failure, once every upstream task has succeeded (trigger rule all_success).
StartTask ==
    \E r \in Runs, t \in DagTasks :
        /\ runs[r].states[t] \in {"none", "up_for_retry"}
        /\ \A u \in Upstream(t) : runs[r].states[u] = "success"
        /\ runs' = [runs EXCEPT ![r].states[t] = "running", ![r].stage = 1]
        /\ UNCHANGED <<mainVars, collectVars, clock, raw_dir, processed_dir, failures>>

\* The running task of a run makes its next call, which returns.  The writers
\* name their file by the second of the clock; the loaders take max(files).
RunStage ==
    \E r \in Runs, t \in DagTasks :
        /\ runs[r].states[t] = "running"
        /\ runs[r].stage <= Len(Stages(t))
        /\ LET call == Stages(t)[runs[r].stage]
               last == runs[r].stage = Len(Stages(t))
           IN /\ call = "load_latest_raw_data" => latest(raw_dir) # 0
              /\ call \in {"load_latest_processed_data", "load_latest_scored_leads"}
                    => latest(processed_dir) # 0
              /\ raw_dir' = IF call = "collect_multi_city_data"
                            THEN [raw_dir EXCEPT ![clock] = r]
                            ELSE raw_dir
              /\ processed_dir' = IF call = "save_processed_data"
                                  THEN [processed_dir EXCEPT ![clock] = r]
                                  ELSE processed_dir
              /\ runs' =
                    [runs EXCEPT
                        ![r].stage = IF last THEN 0 ELSE @ + 1,
                        ![r].states[t] = IF last THEN "success" ELSE @,
                        ![r].raw_read =
                            IF call = "load_latest_raw_data" THEN latest(raw_dir) ELSE @,
                        ![r].scored_read =
                            IF call = "load_latest_processed_data"
                            THEN latest(processed_dir) ELSE @,
                        ![r].vector_read =
                            IF call = "load_latest_scored_leads"
                            THEN latest(processed_dir) ELSE @]
        /\ UNCHANGED <<mainVars, collectVars, clock, failures>>

\* The call the running task is at raises: the callable logs and re-raises,
\* the attempt ends; the task is retried while it has tries left.
StageRaises ==
    \E r \in Runs, t \in DagTasks :
        /\ runs[r].states[t] = "running"
        /\ runs[r].stage <= Len(Stages(t))
        /\ failures < MaxFailures
        /\ failures' = failures + 1
        /\ runs' =
            [runs EXCEPT
                ![r].stage = 0,
                ![r].tries[t] = @ + 1,
                ![r].states[t] = IF runs[r].tries[t] + 1 > retries
                                 THEN "failed"
                                 ELSE "up_for_retry"]
        /\ UNCHANGED <<mainVars, collectVars, clock, raw_dir, processed_dir>>

\* The clock reaches the next second in which a file is written: the file
\* names carry the second of the write, and only their order and their
\* collisions matter to the loaders, so the seconds in which nothing is written
\* are not counted.
Tick ==
    /\ clock < MaxClock
    /\ raw_dir[clock] # 0 \/ processed_dir[clock] # 0
    /\ clock' = clock + 1
    /\ UNCHANGED <<mainVars, collectVars, raw_dir, processed_dir, runs, failures>>

NextDag ==
    \/ StartTask
    \/ RunStage
    \/ StageRaises
    \/ Tick

\* Two runs of the DAG, none of their tasks started, over empty directories.
InitDag ==
    /\ pc = "dag"
    /\ weights = SCORING_WEIGHTS
    /\ raw = <<>>
    /\ df = <<>>
    /\ ExportIdle
    /\ raw_files = 0
    /\ arg = <<>>
    /\ processed_csv = <<>>
    /\ searches = <<>>
    /\ current_search = 0
    /\ places_done = 0
    /\ seen_place_ids = {}
    /\ all_businesses = <<>>
    /\ detail_requests = <<>>
    /\ clock = 0
    /\ raw_dir = [ts \in 0..MaxClock |-> 0]
    /\ processed_dir = [ts \in 0..MaxClock |-> 0]
    /\ runs = [r \in Runs |->
                [states      |-> [t \in DagTasks |-> "none"],
                 tries       |-> [t \in DagTasks |-> 0],
                 stage       |-> 0,
                 raw_read    |-> 0,
                 scored_read |-> 0,
                 vector_read |-> 0]]
    /\ failures = 0

SpecDag == InitDag /\ [][NextDag]_vars

-----------------------------------------------------------------------------
(* Properties *)

Cleaned == pc \in {"cleaned", "engineered", "scored", "validated", "saved"}

Engineered == pc \in {"engineered", "scored", "validated", "saved"}

Scored == pc \in {"scored", "validated", "saved"}

\* sum(f.values()) over the keys S of a dict f
RECURSIVE SetSum(_, _)
SetSum(f, S) ==
    IF S = {} THEN 0
    ELSE LET k == CHOOSE x \in S : TRUE IN f[k] + SetSum(f, S \ {k})

\* C1: for every record and every weight configuration, lead_score equals
\* the sum of the values stored in the record's score_breakdown.
C1_ScoreIsSumOfBreakdown ==
    Scored =>
        \A i \in DOMAIN df :
            df[i].lead_score =
                SetSum(df[i].score_breakdown, DOMAIN df[i].score_breakdown)

\* C1 witness: a lead scored under weights other than the configured ones,
\* with all six factors in its breakdown.
C1_Witness ==
    /\ Scored
    /\ weights # SCORING_WEIGHTS
    /\ \E i \in DOMAIN df : Cardinality(DOMAIN df[i].score_breakdown) = 6

\* C2: with the configured SCORING_WEIGHTS every lead_score is an integer
\* in [0,100].
C2_ScoreWithinBounds ==
    (Scored /\ weights = SCORING_WEIGHTS) =>
        \A i \in DOMAIN df : df[i].lead_score \in 0..100

\* C2 witness: under the configured weights a saved lead reaches the upper
\* end of the range.
C2_Witness ==
    /\ pc = "saved"
    /\ weights = SCORING_WEIGHTS
    /\ \E i \in DOMAIN df : df[i].lead_score = 100

\* The documented bins: Low (0,50], Medium (50,70], High (70,85], Critical (85,100]
DocumentedBin(score) ==
    IF score <= 50 THEN "Low"
    ELSE IF score <= 70 THEN "Medium"
    ELSE IF score <= 85 THEN "High"
    ELSE "Critical"

\* C3: for every integer score in 1..100 the priority is the documented bin
\* containing it (50 Low, 51 Medium, 70 Medium, 71 High, 85 High,
\* 86 Critical, 100 Critical), and leads with equal scores get equal priority.
C3_PriorityMatchesBins ==
    Scored =>
        /\ \A i \in DOMAIN df :
                df[i].lead_score \in 1..100 =>
                    df[i].priority = Some(DocumentedBin(df[i].lead_score))
        /\ \A i, j \in DOMAIN df :
                df[i].lead_score = df[j].lead_score => df[i].priority = df[j].priority

\* C3 witness: a lead one point above the Low/Medium edge.
C3_Witness ==
    /\ Scored
    /\ \E i \in DOMAIN df : df[i].lead_score = 51 /\ df[i].priority = Some("Medium")

\* C4: a lead whose score is exactly 0 has priority Low, and no lead with a
\* score in [0,100] is left without a priority.
C4_ZeroScoreIsLow ==
    Scored =>
        \A i \in DOMAIN df :
            /\ df[i].lead_score = 0 => df[i].priority = Some("Low")
            /\ df[i].lead_score \in 0..100 => df[i].priority # NaN

\* The factor table of the scorer: the points of the one Review Volume branch
\* that applies.
TableReviewPoints(n, w) ==
    CASE n > 500       -> w.review_count_high
      [] n \in 201..500 -> w.review_count_medium
      [] n \in 51..200  -> w.review_count_low
      [] OTHER          -> 5

\* The factor table: the factors whose condition holds for a row.
TableFactors(row) ==
    {"Review Volume"}
        \cup (IF row.on_ubereats \/ row.on_grubhub THEN {"Competitor Platform"} ELSE {})
        \cup (IF row.high_demand_category THEN {"High Demand Category"} ELSE {})
        \cup (IF row.urban_location THEN {"Urban Location"} ELSE {})
        \cup (IF row.high_rating THEN {"High Rating"} ELSE {})
        \cup (IF row.is_affordable THEN {"Affordable Price"} ELSE {})

\* The factor table: the points source of each factor.
TablePoints(f, row, w) ==
    CASE f = "Competitor Platform"  -> w.competitor_platform
      [] f = "Review Volume"        -> TableReviewPoints(row.review_count[1], w)
      [] f = "High Demand Category" -> w.high_demand_category
      [] f = "Urban Location"       -> w.urban_location
      [] f = "High Rating"          -> w.high_rating
      [] f = "Affordable Price"     -> w.affordable_price

TableBreakdown(row, w) == [f \in TableFactors(row) |-> TablePoints(f, row, w)]

TableSum(row, w) == SetSum(TableBreakdown(row, w), TableFactors(row))

\* C5: when the applicable weights sum above 100 the stored lead_score is
\* that raw sum and the lead keeps a classification.
C5_OverweightSurfaced ==
    Scored =>
        \A i \in DOMAIN df :
            TableSum(df[i], weights) > 100 =>
                /\ df[i].lead_score = TableSum(df[i], weights)
                /\ df[i].priority # NaN

\* The documented SLA offsets, in days.
SlaOffset(priority) ==
    CASE priority = "Critical" -> 3
      [] priority = "High"     -> 7
      [] priority = "Medium"   -> 14
      [] priority = "Low"      -> 30

\* C6: contact_by is the record's collection timestamp plus the SLA offset of
\* its priority, whatever the day the scorer runs.
C6_ContactByFromCollection ==
    Scored =>
        \A i \in DOMAIN df :
            df[i].priority # NaN =>
                df[i].contact_by_date =
                    Some(df[i].fetched_at + SlaOffset(df[i].priority[1]))

AllConditions(row) ==
    /\ TableFactors(row) =
            {"Competitor Platform", "Review Volume", "High Demand Category",
             "Urban Location", "High Rating", "Affordable Price"}
    /\ row.review_count[1] > 500

\* C7: score_breakdown has an entry for a factor iff the factor's condition
\* held, valued at the configured weight (Review Volume always, by the one
\* branch that applies); a lead with all conditions true and more than 500
\* reviews scores 100 and is Critical.
C7_BreakdownMatchesFactors ==
    Scored =>
        \A i \in DOMAIN df :
            /\ df[i].score_breakdown = TableBreakdown(df[i], weights)
            /\ (AllConditions(df[i]) /\ weights = SCORING_WEIGHTS) =>
                    /\ df[i].lead_score = 25 + 20 + 20 + 15 + 10 + 10
                    /\ df[i].priority = Some("Critical")

\* C7 witness: a scored lead with every condition true and over 500 reviews.
C7_Witness ==
    /\ Scored
    /\ \E i \in DOMAIN df :
            /\ AllConditions(df[i])
            /\ df[i].score_breakdown["Review Volume"] = 20
            /\ df[i].priority = Some("Critical")

\* The documented buckets: VeryLow [0,50), Low [50,200), Medium [200,500),
\* High [500,inf)
DocumentedBucket(n) ==
    IF n < 50 THEN "Very Low"
    ELSE IF n < 200 THEN "Low"
    ELSE IF n < 500 THEN "Medium"
    ELSE "High"

\* C8: every record gets exactly one review-volume bucket, by left-closed,
\* right-open intervals: 0 is VeryLow and 50, 200, 500 are in the higher bucket.
C8_BucketsLeftClosed ==
    Engineered =>
        \A i \in DOMAIN df :
            df[i].review_volume = Some(DocumentedBucket(df[i].review_count[1]))

RestaurantTerms == {"restaurant", "food", "meal_takeaway", "meal_delivery", "cafe"}

GroceryTerms == {"grocery", "supermarket", "store"}

RetailTerms == {"shopping", "store", "clothing_store", "convenience_store"}

Matches(types, terms) == \E t \in terms : contains(lower(str(types)), t)

\* C9: every record has exactly one vertical, the first that matches in the
\* order Restaurants, Grocery, Retail, else Other; tags matching a restaurant
\* keyword and "store" are Restaurants, tags matching both a grocery and a
\* retail keyword are Grocery.
C9_VerticalFirstMatch ==
    Engineered =>
        \A i \in DOMAIN df :
            LET ty == df[i].types
                v  == df[i].vertical
            IN /\ v \in {"restaurants", "grocery", "retail", "other"}
               /\ v = "restaurants" <=> Matches(ty, RestaurantTerms)
               /\ v = "grocery" <=>
                    ~Matches(ty, RestaurantTerms) /\ Matches(ty, GroceryTerms)
               /\ v = "retail" <=>
                    /\ ~Matches(ty, RestaurantTerms)
                    /\ ~Matches(ty, GroceryTerms)
                    /\ Matches(ty, RetailTerms)
               /\ ty = Some("Cafe,store") => v = "restaurants"
               /\ ty = Some("clothing_store") => v = "grocery"
               /\ ty = Some("shopping_mall") => v = "retail"
               /\ ty = NaN => v = "other"

\* C9 witness: a record whose tags match both a grocery and a retail keyword.
C9_Witness ==
    /\ Engineered
    /\ \E i \in DOMAIN df :
            /\ Matches(df[i].types, GroceryTerms)
            /\ Matches(df[i].types, RetailTerms)
            /\ ~Matches(df[i].types, RestaurantTerms)
            /\ df[i].vertical = "grocery"

\* C10: clean_data returns at most as many records as it received and every
\* cleaned record has non-null city, state, rating, review_count, price_level.
C10_CleanedNonNull ==
    Cleaned =>
        /\ Len(df) <= Len(raw)
        /\ \A i \in DOMAIN df :
                /\ df[i].city # NaN
                /\ df[i].state # NaN
                /\ df[i].rating # NaN
                /\ df[i].review_count # NaN
                /\ df[i].price_level # NaN

\* The position of the first comma of s, or 0.
FirstComma(s) ==
    IF \E i \in 1..Len(s) : SubSeq(s, i, i) = ","
    THEN CHOOSE i \in 1..Len(s) :
            /\ SubSeq(s, i, i) = ","
            /\ \A k \in 1..(i - 1) : SubSeq(s, k, k) # ","
    ELSE 0

\* The documented split: the trimmed text before the first comma.
DocumentedCity(s) ==
    IF FirstComma(s) = 0 THEN strip(s) ELSE strip(SubSeq(s, 1, FirstComma(s) - 1))

\* The documented split: the trimmed whole text after the first comma, or "".
DocumentedRegion(s) ==
    IF FirstComma(s) = 0 THEN "" ELSE strip(SubSeq(s, FirstComma(s) + 1, Len(s)))

\* C11: source_location is split on the first comma only: city is the trimmed
\* text before it, region the trimmed whole text after it, and "" without a
\* comma.
C11_SplitOnFirstComma ==
    Cleaned =>
        \A i \in DOMAIN df :
            /\ df[i].city = Some(DocumentedCity(df[i].source_location[1]))
            /\ df[i].state = Some(DocumentedRegion(df[i].source_location[1]))

\* The nearest value of lo..hi to v.
Clamp(v, lo, hi) == IF v < lo THEN lo ELSE IF v > hi THEN hi ELSE v

\* The documented coercion of a numeric cell: the default 0 when missing,
\* otherwise the value clamped to its domain.
Coerced(cell, lo, hi) == IF cell = NaN THEN Some(0) ELSE Some(Clamp(cell[1], lo, hi))

\* C12: after clean_data a missing numeric value is the default and a value
\* outside its domain (rating 0..5, review_count >= 0, price_level 0..4) is
\* clamped to the nearest boundary.
C12_NumericFieldsInDomain ==
    Cleaned =>
        \A i \in DOMAIN df :
            /\ df[i].rating = Coerced(raw[i].rating, 0, 50)
            /\ df[i].review_count =
                    (IF raw[i].review_count = NaN THEN Some(0)
                     ELSE Some(Max({0, raw[i].review_count[1]})))
            /\ df[i].price_level = Coerced(raw[i].price_level, 0, 4)

\* The rows of a frame that have an identifier, in order.
RECURSIVE Identified(_)
Identified(frame) ==
    IF frame = <<>> THEN <<>>
    ELSE IF Head(frame).place_id = NaN THEN Identified(Tail(frame))
    ELSE <<Head(frame)>> \o Identified(Tail(frame))

\* C13: clean_data drops a record iff it has no identifier: the place_ids of
\* the cleaned records are those of the identified raw records, in order.
C13_DropsOnlyUnidentified ==
    Cleaned =>
        /\ Len(df) = Len(Identified(raw))
        /\ \A i \in DOMAIN df :
                i <= Len(Identified(raw)) => df[i].place_id = Identified(raw)[i].place_id

-----------------------------------------------------------------------------
(* Properties of the export module *)

\* apply_vertical_filters has returned
Filtered ==
    pc \in {"filtered", "export_returned", "exported", "combined", "summarised",
            "export_failed", "export_done"}

\* The leads of vertical v that pass its min_score and are not in its output.
CutLeads(v) ==
    {i \in DOMAIN df :
        /\ df[i].vertical = v
        /\ df[i].lead_score >= rules[v].min_score
        /\ \A k \in DOMAIN vertical_dfs[v] : vertical_dfs[v][k].place_id # df[i].place_id}

\* C14: for every vertical with a rule, the sequence apply_vertical_filters
\* returns for it has at most target_count leads, every lead in it has that
\* vertical and a lead_score of at least min_score, and every lead in it is a
\* lead of the input.
C14_OutputWithinRule ==
    Filtered =>
        \A v \in DOMAIN vertical_dfs :
            /\ v \in DOMAIN rules
            /\ Len(vertical_dfs[v]) <= rules[v].target_count
            /\ \A k \in DOMAIN vertical_dfs[v] :
                    /\ vertical_dfs[v][k].vertical = v
                    /\ vertical_dfs[v][k].lead_score >= rules[v].min_score
                    /\ \E i \in DOMAIN df : df[i] = vertical_dfs[v][k]

\* A vertical filled to its cap, with a passing lead cut and a lead below
\* min_score left out.
C14_Witness ==
    /\ Filtered
    /\ \E v \in DOMAIN vertical_dfs :
            /\ rules[v].target_count > 0
            /\ Len(vertical_dfs[v]) = rules[v].target_count
            /\ CutLeads(v) # {}
            /\ \E i \in DOMAIN df :
                    df[i].vertical = v /\ df[i].lead_score < rules[v].min_score

\* C17: in each vertical's output the scores are non-increasing, and every lead
\* that passed min_score but was cut by target_count scores no more than any
\* retained lead.
C17_CapKeepsHighest ==
    Filtered =>
        \A v \in DOMAIN vertical_dfs :
            /\ \A k \in 1..(Len(vertical_dfs[v]) - 1) :
                    vertical_dfs[v][k].lead_score >= vertical_dfs[v][k + 1].lead_score
            /\ \A i \in CutLeads(v) :
                    \A k \in DOMAIN vertical_dfs[v] :
                        df[i].lead_score <= vertical_dfs[v][k].lead_score

\* A lead cut by the cap that scores strictly less than a retained lead, in an
\* output of two leads of different scores.
C17_Witness ==
    /\ Filtered
    /\ \E v \in DOMAIN vertical_dfs :
            /\ Len(vertical_dfs[v]) = 2
            /\ vertical_dfs[v][1].lead_score > vertical_dfs[v][2].lead_score
            /\ \E i \in CutLeads(v) : df[i].lead_score < vertical_dfs[v][1].lead_score

\* C18: a vertical is a key of the result only if at least one of its leads is
\* retained: no key maps to an empty sequence.
C18_NoEmptyVertical ==
    Filtered => \A v \in DOMAIN vertical_dfs : vertical_dfs[v] # <<>>

\* C19: a lead whose vertical has no rule is fatal: the filter returns nothing
\* and no file is written.
C19_UnruledVerticalIsFatal ==
    (\E i \in DOMAIN scored_file : scored_file[i].vertical \notin DOMAIN rules) =>
        /\ ~Filtered
        /\ files = <<>>

\* C15: apply_vertical_filters is idempotent: applied to the concatenation of
\* its own per-vertical outputs it returns, for every vertical, the same
\* sequence of leads in the same order.
C15_FilterIdempotent ==
    Filtered =>
        \A again \in apply_vertical_filters(concat(vertical_dfs, RuleOrder), rules) :
            again = vertical_dfs

\* C16: the result of apply_vertical_filters does not depend on the order of
\* the input rows: whatever the order of the rows of the input, it returns the
\* same sequence for every vertical.
C16_IndependentOfInputOrder ==
    Filtered =>
        \A p \in Orderings(Len(df)) :
            \A other \in apply_vertical_filters([i \in 1..Len(df) |-> df[p[i]]], rules) :
                other = vertical_dfs

-----------------------------------------------------------------------------
(* The conversion diagnostic *)

\* The values another computation of the diagnostic may give, in hundredths.
DiagnosticValues == {0, 12, 31, 50, 100}

\* The columns of a row but the diagnostic: a run that does not compute it.
WithoutDiagnostic(row) ==
    [k \in DOMAIN row \ {"expected_conversion_prob"} |-> row[k]]

\* The row as a run computing the diagnostic differently leaves it.
WithDiagnostic(row, p) == Assign(row, [expected_conversion_prob |-> p])

\* The columns of a scored row the diagnostic must not influence.
Decision(row) ==
    <<row.lead_score, row.score_breakdown, row.priority, row.contact_by_date>>

\* C20: the conversion diagnostic never influences the score: scoring the same
\* features without the diagnostic, or with the diagnostic holding any other
\* value, gives the lead_score, score_breakdown and priority of this run, and
\* on the same day the same contact_by_date.
C20_DiagnosticNeverInfluences ==
    Scored =>
        \A i \in DOMAIN df :
            \A today \in 0..MaxDelay, na_passed \in BOOLEAN :
                LET without ==
                        calculate_lead_score(<<WithoutDiagnostic(df[i])>>,
                                             weights, today, na_passed)[1]
                IN /\ without.lead_score = df[i].lead_score
                   /\ without.score_breakdown = df[i].score_breakdown
                   /\ without.priority = df[i].priority
                   /\ \A p \in DiagnosticValues :
                        Decision(calculate_lead_score(<<WithDiagnostic(df[i], p)>>,
                                                      weights, today, na_passed)[1])
                            = Decision(without)

\* Two scored leads of the same lead_score whose diagnostics differ, one of
\* them above 0.30.
C20_Witness ==
    /\ Scored
    /\ \E i, j \in DOMAIN df :
            /\ df[i].lead_score = df[j].lead_score
            /\ df[i].lead_score > 0
            /\ df[i].expected_conversion_prob > 30
            /\ df[j].expected_conversion_prob < df[i].expected_conversion_prob

-----------------------------------------------------------------------------
(* Properties of the collector *)

\* The places the searches processed so far have returned.
Collected == pc = "collected"

\* C29: no two records of the batch share a place_id, details are requested at
\* most once per place_id, and a place whose details were requested is in the
\* batch at most once whatever later searches return.
C29_BatchIdsUnique ==
    /\ \A i, j \in DOMAIN all_businesses :
            all_businesses[i].place_id = all_businesses[j].place_id => i = j
    /\ \A p \in DOMAIN detail_requests : detail_requests[p] <= 1
    /\ \A p \in DOMAIN detail_requests :
            detail_requests[p] = 1 <=> p \in seen_place_ids
    /\ \A i \in DOMAIN all_businesses : all_businesses[i].place_id \in seen_place_ids

\* A collection has returned in which a place whose only detail fetch failed
\* came back in the next search and is absent from the batch, and another place
\* returned by both searches is in the batch once.
C29_Witness ==
    /\ Collected
    /\ \E p, q \in SearchedPlaces :
            /\ p # q
            /\ \A k \in DOMAIN searches :
                    \E i, j \in DOMAIN searches[k].places :
                        searches[k].places[i] = p /\ searches[k].places[j] = q
            /\ detail_requests[p] = 1
            /\ \A i \in DOMAIN all_businesses : all_businesses[i].place_id # p
            /\ Len(all_businesses) = 1
            /\ all_businesses[1].place_id = q

-----------------------------------------------------------------------------
(* Properties of the run over any input *)

\* C21: validate_scoring_model never blocks the pipeline and never changes
\* the data: whatever the scored leads, the step after "scored" is the return
\* of the validator with every lead unchanged, and the save runs next.
C21_ValidatorNeverBlocks ==
    [][pc = "scored" => (pc' = "validated" /\ df' = df)]_vars

\* C22: with no raw file, or a raw file without records, the run fails before
\* clean_data or any later stage executes, and nothing is written.
C22_EmptyInputFailsFirst ==
    (raw_files = 0 \/ raw = <<>>) =>
        /\ pc \in {"start", "load_failed", "loaded"}
        /\ processed_csv = <<>>

\* A stage of the pipeline returns in this step.
StageReturns ==
    /\ pc' # pc
    /\ pc' \in {"cleaned", "engineered", "scored", "validated", "filtered",
                "export_returned"}

\* C25: no stage mutates its input: when clean_data, engineer_features,
\* calculate_lead_score, validate_scoring_model or apply_vertical_filters
\* returns, the frame the caller passed in has the columns and values it had
\* before the call.
C25_NoStageMutatesInput ==
    [][StageReturns => arg' = df]_vars

\* The record of raw row i as the pipeline leaves it when the row is the only
\* one of its batch.
Alone(i, today, na_passed) ==
    calculate_lead_score(engineer_features(clean_data(<<raw[i]>>)),
                         weights, today, na_passed)[1]

\* C26: the per-record transforms are independent of the other records: the
\* cleaned fields and features of a record, competitor signals included, and
\* its score, breakdown and priority are those it gets in a batch of its own.
C26_RecordsIndependent ==
    /\ pc = "engineered" =>
            \A i \in DOMAIN df : df[i] = engineer_features(clean_data(<<raw[i]>>))[1]
    /\ Scored =>
            \A i \in DOMAIN df :
                \A today \in 0..MaxDelay, na_passed \in BOOLEAN :
                    /\ df[i].lead_score = Alone(i, today, na_passed).lead_score
                    /\ df[i].score_breakdown = Alone(i, today, na_passed).score_breakdown
                    /\ df[i].priority = Alone(i, today, na_passed).priority

-----------------------------------------------------------------------------
(* Properties of the scored_leads file *)

\* The scored_leads file has been written and read back.
Reloaded == pc = "reloaded"

\* C28: the leads read back from the scored_leads file are equal to the leads
\* saved, field for field (rating and the diagnostic to their decimals).
C28_RoundTrip ==
    Reloaded =>
        /\ Len(scored_file) = Len(df)
        /\ \A i \in DOMAIN df :
                /\ DOMAIN scored_file[i] = DOMAIN df[i]
                /\ \A c \in DOMAIN df[i] : scored_file[i][c] = df[i][c]

-----------------------------------------------------------------------------
(* Properties of the output files *)

\* export_leads.main() has returned or raised.
ExportEnded == pc \in {"export_done", "export_failed", "export_returned"}

\* The file of every vertical of the result, the combined file and the summary.
CompleteOutput ==
    DOMAIN files =
        {v \o "_leads" : v \in DOMAIN vertical_dfs}
            \cup {"all_leads_combined", "sales_summary"}

\* C24: no partial commits: when the export has ended, by returning or by an
\* exception, either every output file has been written or none.
C24_NoPartialCommit ==
    ExportEnded => (DOMAIN files = {} \/ CompleteOutput)

-----------------------------------------------------------------------------
(* Properties of the DAG runs *)

\* The documented order of the tasks.
DocumentedTasks ==
    <<"collect_data", "engineer_features", "export_csv", "update_vector_store",
      "generate_notification">>

\* The documented order of the stages: clean, engineer features, score,
\* validate, segment.
DocumentedStages ==
    <<"clean_data", "engineer_features", "calculate_lead_score",
      "validate_scoring_model", "apply_vertical_filters">>

\* The calls run r has completed: those of its tasks that succeeded and those
\* the running task has made in this attempt.
Completed(r) ==
    UNION {{Stages(t)[k] : k \in {j \in DOMAIN Stages(t) :
                                    \/ runs[r].states[t] = "success"
                                    \/ runs[r].states[t] = "running" /\ j < runs[r].stage}}
            : t \in DOMAIN runs[r].states}

\* C23: the stages and the tasks run in their fixed order: a task has started
\* only when every task before it has succeeded, a stage has completed only
\* when the stage before it has, and a task whose stage raised is not running
\* (its attempt has ended) with no task after it started.
C23_FixedOrder ==
    \A r \in DOMAIN runs :
        /\ \A k \in DOMAIN DocumentedTasks :
                runs[r].states[DocumentedTasks[k]] # "none" =>
                    \A j \in 1..(k - 1) : runs[r].states[DocumentedTasks[j]] = "success"
        /\ LET done == Completed(r)
           IN  \A k \in 2..Len(DocumentedStages) :
                    DocumentedStages[k] \in done => DocumentedStages[k - 1] \in done
        /\ \A k \in DOMAIN DocumentedTasks :
                runs[r].states[DocumentedTasks[k]] \in {"up_for_retry", "failed"} =>
                    /\ runs[r].stage = 0
                    /\ \A j \in (k + 1)..Len(DocumentedTasks) :
                            runs[r].states[DocumentedTasks[j]] = "none"

\* One run has completed all its tasks while the other, after an exception in
\* engineer_features, is in a later attempt of it that has passed the scorer.
C23_Witness ==
    \E r, q \in DOMAIN runs :
        /\ runs[r].states["generate_notification"] = "success"
        /\ runs[q].tries["engineer_features"] = 1
        /\ runs[q].states["engineer_features"] = "running"
        /\ "calculate_lead_score" \in Completed(q)
        /\ runs[q].states["export_csv"] = "none"

\* C27: the DAG has every one of the tasks collect_data, engineer_features,
\* export_csv, export_google_sheets, update_vector_store and
\* generate_notification.
C27_ExpectedTasks ==
    \A r \in DOMAIN runs :
        {"collect_data", "engineer_features", "export_csv", "export_google_sheets",
         "update_vector_store", "generate_notification"} \subseteq DOMAIN runs[r].states

\* C30: every loader of a run picks the file written by that run: its
\* engineer_features the raw file of its collect_data, its export_csv and its
\* update_vector_store the scored_leads file of its engineer_features.
C30_RunReadsOwnFiles ==
    \A r \in DOMAIN runs :
        /\ runs[r].raw_read \in {0, r}
        /\ runs[r].scored_read \in {0, r}
        /\ runs[r].vector_read \in {0, r}

=============================================================================
